---- MODULE Spec2Model ----
(***************************************************************************)
(* github-repo-scraper: the upsert layer of src/main.py over the schema of *)
(* src/db_init.py, and the main loop (pagination, cost window, credential  *)
(* rotation).                                                              *)
(*                                                                         *)
(* Values.  A Python value that may be None is an option: None is <<>> and *)
(* a present value v is <<v>>.  A Python list argument is a sequence; the  *)
(* code treats None and the empty list alike (`x is None or not len(x)`),  *)
(* and both are <<>> here.  Logins and label names are sequences of        *)
(* one-character strings, because the code looks them up with SQL LIKE,    *)
(* which works character by character.  Numeric strings of the API         *)
(* (fullDatabaseId) are sequences of decimal digits, converted by PyInt.   *)
(***************************************************************************)
EXTENDS Integers, Sequences, FiniteSets, TLC

None == <<>>
Some(v) == <<v>>
Val(o) == o[1]

(* Python's `x or {}` followed by .get: an absent parent object yields None *)
Coalesce(a, b) == IF a # None THEN a ELSE b

SetMax(S) == CHOOSE m \in S : \A x \in S : x <= m

(* int("57") = 57: decimal value of a sequence of digits *)
RECURSIVE PyInt(_)
PyInt(ds) ==
    IF ds = <<>> THEN 0
    ELSE 10 * PyInt(SubSeq(ds, 1, Len(ds) - 1)) + ds[Len(ds)]

(* int(True) = 1, int(False) = 0 *)
PyIntOfBool(b) == IF b THEN 1 ELSE 0

(***************************************************************************)
(* Text: the characters the model's logins and names are written with, in  *)
(* code-point order, and SQLite's LIKE (ASCII case-insensitive, `_` one    *)
(* character, `%` any run of characters).                                  *)
(***************************************************************************)
Alphabet ==
    << "%", "A", "B", "C", "D", "E", "F", "G", "H", "I", "J", "K", "L", "M",
       "N", "O", "P", "Q", "R", "S", "T", "U", "V", "W", "X", "Y", "Z", "_",
       "a", "b", "c", "d", "e", "f", "g", "h", "i", "j", "k", "l", "m",
       "n", "o", "p", "q", "r", "s", "t", "u", "v", "w", "x", "y", "z" >>

Code(c) == CHOOSE i \in 1..Len(Alphabet) : Alphabet[i] = c

Lower(c) == IF Code(c) >= 2 /\ Code(c) <= 27 THEN Alphabet[Code(c) + 27] ELSE c

RECURSIVE Like(_, _)
Like(s, pat) ==
    IF pat = <<>> THEN s = <<>>
    ELSE IF Head(pat) = "%"
         THEN Like(s, Tail(pat)) \/ (s # <<>> /\ Like(Tail(s), pat))
         ELSE /\ s # <<>>
              /\ (Head(pat) = "_" \/ Lower(Head(s)) = Lower(Head(pat)))
              /\ Like(Tail(s), Tail(pat))

(* BINARY collation: the order of the unique index on a text column *)
RECURSIVE BinaryLess(_, _)
BinaryLess(a, b) ==
    IF b = <<>> THEN FALSE
    ELSE IF a = <<>> THEN TRUE
    ELSE IF Head(a) # Head(b) THEN Code(Head(a)) < Code(Head(b))
    ELSE BinaryLess(Tail(a), Tail(b))

(***************************************************************************)
(* The store.  Each table is a set of rows.  `integer primary key` columns *)
(* that the code does not supply get the largest id in the table plus one. *)
(***************************************************************************)
EmptyTables ==
    [ authors             |-> {},
      pull_requests       |-> {},
      commits             |-> {},
      reviews             |-> {},
      review_threads      |-> {},
      comments            |-> {},
      files               |-> {},
      author_pull_request |-> {},
      labels              |-> {},
      label_pull_request  |-> {} ]

NextRowId(table) == IF table = {} THEN 1 ELSE SetMax({r.id : r \in table}) + 1

(* A connection: w is what the connection sees (with the writes of its open  *)
(* transaction), c is what is committed; close() and process exit roll back. *)
Connect(tables) == [open |-> TRUE, w |-> tables, c |-> tables]
Commit(cn) == [cn EXCEPT !.c = cn.w]
Close(cn) == [cn EXCEPT !.open = FALSE, !.w = cn.c]

(***************************************************************************)
(* Entity Upsert Layer (src/main.py).  Every operation maps a connection   *)
(* to the connection after the call.  Records that the schema rejects      *)
(* (a null in a NOT NULL column, a foreign key without its row) raise an   *)
(* exception in the code; the actions below only pass records the schema   *)
(* accepts.                                                                *)
(***************************************************************************)

(* Mutants of AuthorUpsert: the statement without its WHERE clause, and    *)
(* the statement with `do nothing` as its conflict clause.                 *)
AuthorUpsert_NoWhere(tables, login, name) ==
    IF \E r \in tables.authors : r.login = login
    THEN [tables EXCEPT !.authors =
             {IF r.login = login THEN [r EXCEPT !.name = name] ELSE r : r \in @}]
    ELSE [tables EXCEPT !.authors =
             @ \cup {[id |-> NextRowId(@), login |-> login, name |-> name]}]

AuthorUpsert_DoNothing(tables, login, name) ==
    IF \E r \in tables.authors : r.login = login
    THEN tables
    ELSE [tables EXCEPT !.authors =
             @ \cup {[id |-> NextRowId(@), login |-> login, name |-> name]}]

(* insert into authors (login, name) values (?, ?)                         *)
(* on conflict (login) do update set name = excluded.name                  *)
(* where excluded.name is not null                                         *)
AuthorUpsert(tables, login, name) ==
    IF \E r \in tables.authors : r.login = login
    THEN IF name # None
         THEN [tables EXCEPT !.authors =
                  {IF r.login = login THEN [r EXCEPT !.name = name] ELSE r : r \in @}]
         ELSE tables
    ELSE [tables EXCEPT !.authors =
             @ \cup {[id |-> NextRowId(@), login |-> login, name |-> name]}]

saveAuthor(cn, login, name) == [cn EXCEPT !.w = AuthorUpsert(cn.w, login, name)]

RECURSIVE AuthorsExecuteMany(_, _)
AuthorsExecuteMany(tables, authors) ==
    IF authors = <<>> THEN tables
    ELSE AuthorsExecuteMany(
             AuthorUpsert(tables, Val(Head(authors).login), Head(authors).name),
             Tail(authors))

saveAuthors(cn, authors) ==
    IF authors = <<>> THEN cn
    ELSE Commit([cn EXCEPT !.w = AuthorsExecuteMany(cn.w, authors)])

(* select id from authors where login like ?  -- fetchone().               *)
(* SQLite answers it by a scan of the unique index on login, so the first  *)
(* row is the matching row whose login is least in BINARY order.           *)
getAuthorIDByLogin(tables, login) ==
    LET hits == {r \in tables.authors : Like(r.login, login)}
    IN  IF hits = {} THEN None
        ELSE Some((CHOOSE r \in hits :
                      \A o \in hits : o = r \/ BinaryLess(r.login, o.login)).id)

(* Mutant of CommitInsert: the conflict target is pull_request_id alone *)
CommitInsert_OnePerPullRequest(tables, pull_request_id, commit) ==
    IF \E r \in tables.commits : r.pull_request_id = Some(pull_request_id)
    THEN tables
    ELSE [tables EXCEPT !.commits =
             @ \cup {[ id              |-> NextRowId(tables.commits),
                       pull_request_id |-> Some(pull_request_id),
                       url             |-> commit.commitUrl,
                       committed_at    |-> commit.committedDate ]}]

(* insert into commits ... on conflict (pull_request_id, url) do nothing.  *)
(* A UNIQUE constraint never matches a NULL: a row whose url is null       *)
(* conflicts with nothing.                                                 *)
CommitInsert(tables, pull_request_id, commit) ==
    IF /\ commit.commitUrl # None
       /\ \E r \in tables.commits :
              r.pull_request_id = Some(pull_request_id) /\ r.url = commit.commitUrl
    THEN tables
    ELSE [tables EXCEPT !.commits =
             @ \cup {[ id              |-> NextRowId(@),
                       pull_request_id |-> Some(pull_request_id),
                       url             |-> commit.commitUrl,
                       committed_at    |-> commit.committedDate ]}]

RECURSIVE CommitsExecuteMany(_, _, _)
CommitsExecuteMany(tables, pull_request_id, commits) ==
    IF commits = <<>> THEN tables
    ELSE CommitsExecuteMany(CommitInsert(tables, pull_request_id, Head(commits)),
                            pull_request_id, Tail(commits))

saveCommits(cn, commits, pull_request_id) ==
    IF commits = <<>> THEN cn
    ELSE Commit([cn EXCEPT !.w = CommitsExecuteMany(cn.w, pull_request_id, commits)])

(* The first loop of saveComments: saveAuthor and the id lookup for each   *)
(* comment in turn, collecting the rows to write.                          *)
RECURSIVE CommentsQueryData(_, _, _, _, _)
CommentsQueryData(tables, comments, pull_request_id, review_id, review_thread_id) ==
    IF comments = <<>> THEN [t |-> tables, q |-> <<>>]
    ELSE LET comment      == Head(comments)
             author_login == comment.author
             t1   == IF author_login # None
                     THEN AuthorUpsert(tables, Val(author_login), None)
                     ELSE tables
             row  == [ id               |-> PyInt(comment.fullDatabaseId),
                       author_id        |-> IF author_login # None
                                            THEN getAuthorIDByLogin(t1, Val(author_login))
                                            ELSE None,
                       pull_request_id  |-> pull_request_id,
                       review_id        |-> review_id,
                       review_thread_id |-> review_thread_id,
                       created_at       |-> comment.createdAt ]
             rest == CommentsQueryData(t1, Tail(comments), pull_request_id,
                                       review_id, review_thread_id)
         IN  [t |-> rest.t, q |-> <<row>> \o rest.q]

(* Mutant of CommentUpsert: the parent links set without coalesce *)
CommentUpsert_Overwrite(tables, row) ==
    IF \E r \in tables.comments : r.id = row.id
    THEN [tables EXCEPT !.comments =
             {IF r.id = row.id
              THEN [r EXCEPT
                      !.pull_request_id  = row.pull_request_id,
                      !.review_id        = row.review_id,
                      !.review_thread_id = row.review_thread_id]
              ELSE r : r \in @}]
    ELSE [tables EXCEPT !.comments = @ \cup {row}]

(* insert into comments ... on conflict (id) do update set                 *)
(*   pull_request_id  = coalesce(excluded.pull_request_id, comments.pull_request_id), *)
(*   review_id, review_thread_id likewise                                  *)
CommentUpsert(tables, row) ==
    IF \E r \in tables.comments : r.id = row.id
    THEN [tables EXCEPT !.comments =
             {IF r.id = row.id
              THEN [r EXCEPT
                      !.pull_request_id  = Coalesce(row.pull_request_id, @),
                      !.review_id        = Coalesce(row.review_id, @),
                      !.review_thread_id = Coalesce(row.review_thread_id, @)]
              ELSE r : r \in @}]
    ELSE [tables EXCEPT !.comments = @ \cup {row}]

RECURSIVE CommentsExecuteMany(_, _)
CommentsExecuteMany(tables, rows) ==
    IF rows = <<>> THEN tables
    ELSE CommentsExecuteMany(CommentUpsert(tables, Head(rows)), Tail(rows))

saveComments(cn, comments, pull_request_id, review_id, review_thread_id) ==
    IF comments = <<>> THEN cn
    ELSE LET qd == CommentsQueryData(cn.w, comments, pull_request_id,
                                     review_id, review_thread_id)
         IN  Commit([cn EXCEPT !.w = CommentsExecuteMany(qd.t, qd.q)])

(* Mutant of ReviewInsert: the review row is not written *)
ReviewInsert_Never(tables, row) == tables

(* insert into reviews ... on conflict (id) do nothing *)
ReviewInsert(tables, row) ==
    IF \E r \in tables.reviews : r.id = row.id
    THEN tables
    ELSE [tables EXCEPT !.reviews = @ \cup {row}]

RECURSIVE saveReviews(_, _, _)
saveReviews(cn, reviews, pull_request_id) ==
    IF reviews = <<>> THEN cn
    ELSE LET review       == Head(reviews)
             review_id    == PyInt(review.fullDatabaseId)
             author_login == review.author
             cn1 == IF author_login # None
                    THEN saveAuthor(cn, Val(author_login), None)
                    ELSE cn
             author_id == IF author_login # None
                          THEN getAuthorIDByLogin(cn1.w, Val(author_login))
                          ELSE None
             cn2 == [cn1 EXCEPT !.w = ReviewInsert(@,
                        [ id              |-> review_id,
                          author_id       |-> author_id,
                          pull_request_id |-> Some(pull_request_id),
                          created_at      |-> review.createdAt ])]
             cn3 == saveComments(cn2, review.comments, None, Some(review_id), None)
         IN  saveReviews(cn3, Tail(reviews), pull_request_id)

(* Mutant of ReviewThreadUpsert: `on conflict (node_id) do nothing`, which *)
(* returns no row for a stored node_id                                     *)
ReviewThreadUpsert_DoNothing(tables, node_id, pull_request_id) ==
    IF \E r \in tables.review_threads : r.node_id = node_id
    THEN [t |-> tables, res |-> None]
    ELSE LET id == NextRowId(tables.review_threads)
         IN  [t   |-> [tables EXCEPT !.review_threads =
                          @ \cup {[ id              |-> id,
                                    node_id         |-> node_id,
                                    pull_request_id |-> Some(pull_request_id) ]}],
              res |-> Some(id)]

(* insert into review_threads (node_id, pull_request_id) values (?, ?)     *)
(* on conflict (node_id) do update set node_id = excluded.node_id          *)
(* returning id                                                            *)
ReviewThreadUpsert(tables, node_id, pull_request_id) ==
    IF \E r \in tables.review_threads : r.node_id = node_id
    THEN [t   |-> tables,
          res |-> Some((CHOOSE r \in tables.review_threads : r.node_id = node_id).id)]
    ELSE LET id == NextRowId(tables.review_threads)
         IN  [t   |-> [tables EXCEPT !.review_threads =
                          @ \cup {[ id              |-> id,
                                    node_id         |-> node_id,
                                    pull_request_id |-> Some(pull_request_id) ]}],
              res |-> Some(id)]

RECURSIVE saveReviewThreads(_, _, _)
saveReviewThreads(cn, threads, pull_request_id) ==
    IF threads = <<>> THEN cn
    ELSE LET thread    == Head(threads)
             up        == ReviewThreadUpsert(cn.w, thread.id, pull_request_id)
             thread_id == up.res
             cn1       == saveComments([cn EXCEPT !.w = up.t], thread.comments,
                                       None, None, thread_id)
         IN  saveReviewThreads(cn1, Tail(threads), pull_request_id)

(* insert into files ... on conflict (pull_request_id, path) do nothing *)
FileInsert(tables, pull_request_id, file) ==
    IF \E r \in tables.files :
           r.pull_request_id = Some(pull_request_id) /\ r.path = file.path
    THEN tables
    ELSE [tables EXCEPT !.files =
             @ \cup {[ id              |-> NextRowId(@),
                       pull_request_id |-> Some(pull_request_id),
                       path            |-> file.path,
                       change_type     |-> file.changeType,
                       additions       |-> file.additions,
                       deletions       |-> file.deletions ]}]

RECURSIVE FilesExecuteMany(_, _, _)
FilesExecuteMany(tables, pull_request_id, files) ==
    IF files = <<>> THEN tables
    ELSE FilesExecuteMany(FileInsert(tables, pull_request_id, Head(files)),
                          pull_request_id, Tail(files))

saveFiles(cn, files, pull_request_id) ==
    IF files = <<>> THEN cn
    ELSE Commit([cn EXCEPT !.w = FilesExecuteMany(cn.w, pull_request_id, files)])

(* The loop of saveParticipants: the (author_id, pull_request_id) pairs of  *)
(* the authors whose login resolves to an id.                              *)
RECURSIVE ParticipantsQueryData(_, _, _)
ParticipantsQueryData(tables, authors, pull_request_id) ==
    IF authors = <<>> THEN <<>>
    ELSE LET author_login == Head(authors).login
             author_id == IF author_login # None
                          THEN getAuthorIDByLogin(tables, Val(author_login))
                          ELSE None
             rest == ParticipantsQueryData(tables, Tail(authors), pull_request_id)
         IN  IF author_id = None THEN rest
             ELSE <<[author_id |-> Val(author_id),
                     pull_request_id |-> pull_request_id]>> \o rest

(* insert into author_pull_request ... on conflict (author_id, pull_request_id) do nothing *)
RECURSIVE AuthorPullRequestExecuteMany(_, _)
AuthorPullRequestExecuteMany(tables, rows) ==
    IF rows = <<>> THEN tables
    ELSE AuthorPullRequestExecuteMany(
             [tables EXCEPT !.author_pull_request = @ \cup {Head(rows)}], Tail(rows))

saveParticipants(cn, authors, pull_request_id) ==
    IF authors = <<>> THEN cn
    ELSE LET cn1 == saveAuthors(cn, authors)
             qd  == ParticipantsQueryData(cn1.w, authors, pull_request_id)
         IN  Commit([cn1 EXCEPT !.w = AuthorPullRequestExecuteMany(@, qd)])

(* insert into labels (name) values (?) on conflict (name) do nothing *)
LabelInsert(tables, name) ==
    IF \E r \in tables.labels : r.name = name
    THEN tables
    ELSE [tables EXCEPT !.labels = @ \cup {[id |-> NextRowId(@), name |-> name]}]

RECURSIVE LabelsExecuteMany(_, _)
LabelsExecuteMany(tables, labels) ==
    IF labels = <<>> THEN tables
    ELSE LabelsExecuteMany(LabelInsert(tables, Val(Head(labels).name)), Tail(labels))

saveLabels(cn, labels) ==
    IF labels = <<>> THEN cn
    ELSE Commit([cn EXCEPT !.w = LabelsExecuteMany(cn.w, labels)])

(* select id from labels where name like ?  -- fetchone(), as for authors *)
getLabelIDByName(tables, name) ==
    LET hits == {r \in tables.labels : Like(r.name, name)}
    IN  IF hits = {} THEN None
        ELSE Some((CHOOSE r \in hits :
                      \A o \in hits : o = r \/ BinaryLess(r.name, o.name)).id)

RECURSIVE LabelLinksQueryData(_, _, _)
LabelLinksQueryData(tables, labels, pull_request_id) ==
    IF labels = <<>> THEN <<>>
    ELSE LET label_name == Head(labels).name
             label_id == IF label_name # None
                         THEN getLabelIDByName(tables, Val(label_name))
                         ELSE None
             rest == LabelLinksQueryData(tables, Tail(labels), pull_request_id)
         IN  IF label_id = None THEN rest
             ELSE <<[label_id |-> Val(label_id),
                     pull_request_id |-> pull_request_id]>> \o rest

(* insert into label_pull_request ... on conflict (label_id, pull_request_id) do nothing *)
RECURSIVE LabelPullRequestExecuteMany(_, _)
LabelPullRequestExecuteMany(tables, rows) ==
    IF rows = <<>> THEN tables
    ELSE LabelPullRequestExecuteMany(
             [tables EXCEPT !.label_pull_request = @ \cup {Head(rows)}], Tail(rows))

linkLabelsWithPullRequest(cn, labels, pull_request_id) ==
    IF labels = <<>> THEN cn
    ELSE LET cn1 == saveLabels(cn, labels)
             qd  == LabelLinksQueryData(cn1.w, labels, pull_request_id)
         IN  Commit([cn1 EXCEPT !.w = LabelPullRequestExecuteMany(@, qd)])

(* Mutant of PullRequestRow: a pull request without author is bound to the *)
(* author row 1                                                            *)
PullRequestRow_DefaultAuthor(pull_request, author_id) ==
    [ id                       |-> pull_request.number,
      author_id                |-> IF author_id = None THEN Some(1) ELSE author_id,
      title                    |-> pull_request.title,
      state                    |-> pull_request.state,
      created_at               |-> pull_request.createdAt,
      closed_at                |-> pull_request.closedAt,
      merged_at                |-> pull_request.mergedAt,
      additions                |-> pull_request.additions,
      deletions                |-> pull_request.deletions,
      author_association       |-> pull_request.authorAssociation,
      head_repository_url      |-> pull_request.headRepository,
      is_cross_repository      |-> PyIntOfBool(pull_request.isCrossRepository),
      merge_commit_ci_state    |-> pull_request.mergeCommit,
      api_total_comments_count |-> pull_request.totalCommentsCount ]

(* The row savePullRequests binds for one pull request *)
PullRequestRow(pull_request, author_id) ==
    [ id                       |-> pull_request.number,
      author_id                |-> author_id,
      title                    |-> pull_request.title,
      state                    |-> pull_request.state,
      created_at               |-> pull_request.createdAt,
      closed_at                |-> pull_request.closedAt,
      merged_at                |-> pull_request.mergedAt,
      additions                |-> pull_request.additions,
      deletions                |-> pull_request.deletions,
      author_association       |-> pull_request.authorAssociation,
      head_repository_url      |-> pull_request.headRepository,
      is_cross_repository      |-> PyIntOfBool(pull_request.isCrossRepository),
      merge_commit_ci_state    |-> pull_request.mergeCommit,
      api_total_comments_count |-> pull_request.totalCommentsCount ]

(* Mutant of PullRequestUpsert: the update leaves author_id out *)
PullRequestUpsert_KeepAuthor(tables, row) ==
    [tables EXCEPT !.pull_requests =
        {r \in @ : r.id # row.id}
        \cup {IF \E r \in @ : r.id = row.id
              THEN [row EXCEPT !.author_id =
                        (CHOOSE r \in tables.pull_requests : r.id = row.id).author_id]
              ELSE row}]

(* insert into pull_requests ... on conflict (id) do update set            *)
(* every other column = excluded.<column>                                  *)
PullRequestUpsert(tables, row) ==
    [tables EXCEPT !.pull_requests = {r \in @ : r.id # row.id} \cup {row}]

RECURSIVE savePullRequests(_, _)
savePullRequests(cn, pull_requests) ==
    IF pull_requests = <<>> THEN cn
    ELSE LET pull_request    == Head(pull_requests)
             pull_request_id == pull_request.number
             author_login    == pull_request.author
             cn1 == IF author_login # None
                    THEN saveAuthor(cn, Val(author_login), None)
                    ELSE cn
             author_id == IF author_login # None
                          THEN getAuthorIDByLogin(cn1.w, Val(author_login))
                          ELSE None
             cn2 == Commit([cn1 EXCEPT !.w =
                        PullRequestUpsert(@, PullRequestRow(pull_request, author_id))])
             cn3 == saveCommits(cn2, pull_request.commits, pull_request_id)
             cn4 == saveComments(cn3, pull_request.comments,
                                 Some(pull_request_id), None, None)
             cn5 == saveReviews(cn4, pull_request.reviews, pull_request_id)
             cn6 == saveReviewThreads(cn5, pull_request.reviewThreads, pull_request_id)
             cn7 == saveFiles(cn6, pull_request.files, pull_request_id)
             cn8 == saveParticipants(cn7, pull_request.participants, pull_request_id)
             cn9 == linkLabelsWithPullRequest(cn8, pull_request.labels, pull_request_id)
         IN  savePullRequests(cn9, Tail(pull_requests))

(***************************************************************************)
(* State.                                                                  *)
(*   con      the sqlite3 connection of src/main.py:12                     *)
(*   call     the upsert-layer call that produced the current store, with  *)
(*            its arguments; before: the tables that call started from     *)
(*   the module-level variables of the main loop (src/main.py:541-554),    *)
(*   pc its position, clock the value time.perf_counter() would return,    *)
(*   in tenths of a second                                                 *)
(*   source   the pages the API serves, requests the requests issued so    *)
(*            far, result the outcome of the request in progress           *)
(*   logged   what logger.error has written, exit_by how the process ended *)
(*   cooldown the local of that name (src/main.py:561) when it last slept  *)
(*   run      the number of the run of the program over the source;        *)
(*            last_pass the committed store the run before it left         *)
(***************************************************************************)
VARIABLES con, call, before,
          token_pool, current_token_idx, current_cost,
          has_next_page, next_page_after, start, saved_pull_requests,
          pc, clock, source, requests, result, logged, exit_by, cooldown,
          run, last_pass

storeVars  == <<con, call, before>>
driverVars == <<token_pool, current_token_idx, current_cost,
                has_next_page, next_page_after, start, saved_pull_requests,
                pc, clock, source, requests, result, logged, exit_by, cooldown,
                run, last_pass>>
vars == <<con, call, before,
          token_pool, current_token_idx, current_cost,
          has_next_page, next_page_after, start, saved_pull_requests,
          pc, clock, source, requests, result, logged, exit_by, cooldown,
          run, last_pass>>

NoCall == [op |-> "none"]

(* The main loop has not started: the state the upsert-layer              *)
(* specifications keep the driver in.                                      *)
DriverIdle ==
    /\ token_pool = <<"">>
    /\ current_token_idx = 0
    /\ current_cost = 0
    /\ has_next_page = TRUE
    /\ next_page_after = None
    /\ start = 0
    /\ saved_pull_requests = 0
    /\ pc = "idle"
    /\ clock = 0
    /\ source = <<>>
    /\ requests = <<>>
    /\ result = None
    /\ logged = <<>>
    /\ exit_by = "running"
    /\ cooldown = 0
    /\ run = 1
    /\ last_pass = None

(* All sequences over S of length 1..n *)
SeqsUpTo(S, n) == UNION {[1..k -> S] : k \in 1..n}

(***************************************************************************)
(* SpecAuthors: saveAuthor and saveAuthors applied, in any order and any   *)
(* number of times, to the store.                                          *)
(***************************************************************************)
MaxAuthors == 2

AuthorLogins == {<<"a", "b">>, <<"a", "_">>}
AuthorNames  == {None, Some("N1"), Some("N2")}
AuthorRecords == [login : {Some(l) : l \in AuthorLogins}, name : AuthorNames]

InitAuthors ==
    /\ con = Connect(EmptyTables)
    /\ call = NoCall
    /\ before = EmptyTables
    /\ DriverIdle

CallSaveAuthor ==
    \E login \in AuthorLogins, name \in AuthorNames :
        /\ con' = saveAuthor(con, login, name)
        /\ call' = [op |-> "saveAuthor",
                    authors |-> <<[login |-> Some(login), name |-> name]>>]
        /\ before' = con.w
        /\ UNCHANGED driverVars

CallSaveAuthors ==
    \E authors \in SeqsUpTo(AuthorRecords, MaxAuthors) :
        /\ con' = saveAuthors(con, authors)
        /\ call' = [op |-> "saveAuthors", authors |-> authors]
        /\ before' = con.w
        /\ UNCHANGED driverVars

NextAuthors == CallSaveAuthor \/ CallSaveAuthors

SpecAuthors == InitAuthors /\ [][NextAuthors]_vars

AuthorCall == call.op \in {"saveAuthor", "saveAuthors"}

(* The records of the call that name the login *)
Incoming(login) ==
    {i \in 1..Len(call.authors) : call.authors[i].login = Some(login)}

(* C2: an author's name never regresses to null.  After any saveAuthor or  *)
(* saveAuthors call, every row that had a non-null name N before the call  *)
(* still exists with a non-null name, and its name is still N when every   *)
(* record the call carried for that login had a null name.                 *)
C2_NameNeverRegresses ==
    AuthorCall =>
        \A r \in before.authors :
            r.name # None =>
                \E r2 \in con.w.authors :
                    /\ r2.id = r.id /\ r2.login = r.login
                    /\ r2.name # None
                    /\ (\A i \in Incoming(r.login) : call.authors[i].name = None)
                           => r2.name = r.name

(* C2 witness: a row named N1 was saved again with a null name, through    *)
(* saveAuthors, and is still named N1.                                     *)
C2_Witness ==
    /\ call.op = "saveAuthors"
    /\ \E r \in before.authors :
          /\ r.name = Some("N1")
          /\ Incoming(r.login) # {}
          /\ \A i \in Incoming(r.login) : call.authors[i].name = None
          /\ \E r2 \in con.w.authors : r2.id = r.id /\ r2.name = Some("N1")

(* The last record of the call that names the login with a non-null name *)
LastNamed(login) ==
    LET named == {i \in Incoming(login) : call.authors[i].name # None}
    IN  IF named = {} THEN None ELSE call.authors[SetMax(named)].name

(* C3: saving an author with a non-null name N2 makes N2 the stored name   *)
(* of the login, whatever was stored before (the last such record of a     *)
(* batch decides), and the login never has a second row.                   *)
C3_NonNullNameWins ==
    /\ \A r1, r2 \in con.w.authors : r1.login = r2.login => r1 = r2
    /\ AuthorCall =>
          \A login \in AuthorLogins :
              LastNamed(login) # None =>
                  /\ Cardinality({r \in con.w.authors : r.login = login}) = 1
                  /\ \A r \in con.w.authors :
                         r.login = login => r.name = LastNamed(login)
                  /\ \A r \in before.authors :
                         r.login = login => \E r2 \in con.w.authors :
                                                r2.login = login /\ r2.id = r.id

(* C3 witness: a row named N1 was saved with the name N2 and is named N2,  *)
(* and another call created a row that did not exist.                      *)
C3_Witness ==
    /\ call.op = "saveAuthor"
    /\ \E r \in before.authors :
          /\ r.name = Some("N1")
          /\ call.authors[1] = [login |-> Some(r.login), name |-> Some("N2")]
          /\ \E r2 \in con.w.authors : r2.id = r.id /\ r2.name = Some("N2")

(***************************************************************************)
(* API nodes the specifications feed to the upsert layer.                  *)
(***************************************************************************)
ab == <<"a", "b">>
a_ == <<"a", "_">>

PullRequestNode(number) ==
    [ number |-> number, author |-> None, title |-> "t1", state |-> "OPEN",
      createdAt |-> "d1", closedAt |-> None, mergedAt |-> None,
      additions |-> 1, deletions |-> 2, authorAssociation |-> "MEMBER",
      headRepository |-> Some("h1"), isCrossRepository |-> FALSE,
      mergeCommit |-> None, totalCommentsCount |-> 0,
      commits |-> <<>>, comments |-> <<>>, reviews |-> <<>>,
      reviewThreads |-> <<>>, files |-> <<>>, participants |-> <<>>,
      labels |-> <<>> ]

CommentNode(digits, author) ==
    [fullDatabaseId |-> digits, author |-> author, createdAt |-> "d1"]

ReviewNode(digits, author, comments) ==
    [fullDatabaseId |-> digits, author |-> author, createdAt |-> "d1",
     comments |-> comments]

(* Two pull requests, 5 and 6; 5 has the review 7 and the thread T1 *)
SeedPage ==
    << [PullRequestNode(5) EXCEPT
            !.reviews = <<ReviewNode(<<7>>, None, <<>>)>>,
            !.reviewThreads = <<[id |-> "T1", comments |-> <<>>]>>],
       PullRequestNode(6) >>

Seeded == savePullRequests(Connect(EmptyTables), SeedPage)

(* Pull request 5 alone, with its review and thread *)
SeededOne == savePullRequests(Connect(EmptyTables), <<SeedPage[1]>>)

InitSeeded ==
    /\ con = Seeded
    /\ call = NoCall
    /\ before = EmptyTables
    /\ DriverIdle

(***************************************************************************)
(* SpecComments: saveComments applied, any number of times, the three ways *)
(* its callers apply it (src/main.py:530, 327, 351): with the id of a pull *)
(* request, of a review, or of a review thread.                            *)
(***************************************************************************)
MaxComments == 2

CommentNodes == {CommentNode(<<1>>, Some(ab)), CommentNode(<<2>>, None)}

CallSaveComments ==
    \E comments \in SeqsUpTo(CommentNodes, MaxComments) :
    \E parent \in
        {<<Some(r.id), None, None>> : r \in con.w.pull_requests}
        \cup {<<None, Some(r.id), None>> : r \in con.w.reviews}
        \cup {<<None, None, Some(r.id)>> : r \in con.w.review_threads} :
        /\ con' = saveComments(con, comments, parent[1], parent[2], parent[3])
        /\ call' = [op |-> "saveComments", comments |-> comments,
                    pull_request_id |-> parent[1], review_id |-> parent[2],
                    review_thread_id |-> parent[3]]
        /\ before' = con.w
        /\ UNCHANGED driverVars

NextComments == CallSaveComments

SpecComments == InitSeeded /\ [][NextComments]_vars

CallCommentIds == {PyInt(call.comments[i].fullDatabaseId) : i \in 1..Len(call.comments)}

(* C1: comment parent links merge additively.  After saveComments, every   *)
(* comment that existed before the call still exists; if the call carried  *)
(* its id, each of its three parent links is the call's value when that is *)
(* non-null and the old value otherwise, and if not, the links are as they *)
(* were; so a parent link that was non-null is never null afterwards.      *)
C1_AdditiveMerge ==
    call.op = "saveComments" =>
        \A r \in before.comments :
            \E r2 \in con.w.comments :
                /\ r2.id = r.id
                /\ \A o \in con.w.comments : o.id = r.id => o = r2
                /\ IF r.id \in CallCommentIds
                   THEN /\ r2.pull_request_id =
                               Coalesce(call.pull_request_id, r.pull_request_id)
                        /\ r2.review_id = Coalesce(call.review_id, r.review_id)
                        /\ r2.review_thread_id =
                               Coalesce(call.review_thread_id, r.review_thread_id)
                   ELSE r2 = r
                /\ r.pull_request_id # None => r2.pull_request_id # None
                /\ r.review_id # None => r2.review_id # None
                /\ r.review_thread_id # None => r2.review_thread_id # None

(* C1 witness: a comment stored with pull_request_id = 5 and no review was *)
(* saved again with review_id = 7 and no pull request; the row has both.   *)
C1_Witness ==
    /\ call.op = "saveComments"
    /\ call.pull_request_id = None /\ call.review_id = Some(7)
    /\ \E r \in before.comments :
          /\ r.id \in CallCommentIds
          /\ r.pull_request_id = Some(5) /\ r.review_id = None
          /\ \E r2 \in con.w.comments :
                r2.id = r.id /\ r2.pull_request_id = Some(5) /\ r2.review_id = Some(7)

(***************************************************************************)
(* SpecPullRequests: savePullRequests applied, any number of times, to     *)
(* lists of pull requests.  Three versions of a pull request, which differ *)
(* in every column, stand for its state at three moments.                  *)
(***************************************************************************)
MaxPullRequests == 2

clang == <<"c", "l", "a", "n", "g">>

CommitNode(url, date) == [commitUrl |-> url, committedDate |-> date]

FileNode(path, changeType) ==
    [path |-> path, changeType |-> changeType, additions |-> Some(1),
     deletions |-> Some(0)]

VersionA(number) ==
    [PullRequestNode(number) EXCEPT
        !.author = Some(ab),
        !.commits = <<CommitNode(Some("c1"), "d1")>>,
        !.comments = <<CommentNode(<<1>>, Some(ab))>>]

VersionB(number) ==
    [PullRequestNode(number) EXCEPT
        !.title = "t2", !.state = "MERGED", !.createdAt = "d2",
        !.closedAt = Some("d3"), !.mergedAt = Some("d3"),
        !.additions = 3, !.deletions = 4, !.authorAssociation = "NONE",
        !.headRepository = None, !.isCrossRepository = TRUE,
        !.mergeCommit = Some("SUCCESS"), !.totalCommentsCount = 2,
        !.participants = <<[login |-> Some(a_), name |-> Some("N1")]>>,
        !.labels = <<[name |-> Some(clang)]>>]

VersionC(number) ==
    [PullRequestNode(number) EXCEPT
        !.author = Some(a_), !.title = "t3", !.state = "CLOSED",
        !.closedAt = Some("d4"), !.additions = 5, !.deletions = 6,
        !.authorAssociation = "CONTRIBUTOR", !.headRepository = Some("h2"),
        !.mergeCommit = Some("FAILURE"), !.totalCommentsCount = 1,
        !.files = <<FileNode("p1", Some("ADDED"))>>]

PullRequestNodes == {VersionA(5), VersionB(5), VersionC(6)}

InitEmpty ==
    /\ con = Connect(EmptyTables)
    /\ call = NoCall
    /\ before = EmptyTables
    /\ DriverIdle

CallSavePullRequests ==
    \E pull_requests \in SeqsUpTo(PullRequestNodes, MaxPullRequests) :
        /\ con' = savePullRequests(con, pull_requests)
        /\ call' = [op |-> "savePullRequests", pull_requests |-> pull_requests]
        /\ before' = con.w
        /\ UNCHANGED driverVars

NextPullRequests == CallSavePullRequests

SpecPullRequests == InitEmpty /\ [][NextPullRequests]_vars

(* The last node of the call that carries the number *)
LastNode(number) ==
    call.pull_requests[SetMax({i \in 1..Len(call.pull_requests) :
                                   call.pull_requests[i].number = number})]

(* C4: pull requests are last-write-wins.  After savePullRequests, for     *)
(* every number the call carried there is exactly one row, and it equals   *)
(* the row of the last node with that number in every column: author_id is *)
(* null when the node has no author and otherwise the id of an author row  *)
(* the login resolves to; no column keeps its value from before the call.  *)
C4_LastWriteWins ==
    call.op = "savePullRequests" =>
        \A i \in 1..Len(call.pull_requests) :
            LET number == call.pull_requests[i].number
                node   == LastNode(number)
                rows   == {r \in con.w.pull_requests : r.id = number}
            IN  /\ Cardinality(rows) = 1
                /\ \A r \in rows :
                      /\ r = PullRequestRow(node, r.author_id)
                      /\ node.author = None => r.author_id = None
                      /\ node.author # None =>
                            /\ r.author_id # None
                            /\ \E a \in con.w.authors :
                                  /\ a.id = Val(r.author_id)
                                  /\ Like(a.login, Val(node.author))

(* C4 witness: pull request 5 was stored as version A (author ab) and was  *)
(* saved again as version B (no author): the row has no author and the     *)
(* title of version B.                                                     *)
C4_Witness ==
    /\ call.op = "savePullRequests"
    /\ \E i \in 1..Len(call.pull_requests) : call.pull_requests[i].number = 5
    /\ LastNode(5) = VersionB(5)
    /\ \E r \in before.pull_requests :
          r.id = 5 /\ r.author_id # None /\ r.title = "t1"
    /\ \E r \in con.w.pull_requests :
          r.id = 5 /\ r.author_id = None /\ r.title = "t2"

(***************************************************************************)
(* SpecAppend: the append-only saves that savePullRequests makes for a     *)
(* stored pull request (src/main.py:529-535), applied any number of times. *)
(* A commit whose url is null is stored again by every save, so the number *)
(* of commit rows is capped.                                               *)
(***************************************************************************)
MaxBatch == 2
MaxCommitRows == 3

CommitNodes ==
    {CommitNode(Some("c1"), "d1"), CommitNode(Some("c1"), "d2"), CommitNode(None, "d1")}
ReviewNodes == {ReviewNode(<<7>>, Some(ab), <<>>)}
FileNodes == {FileNode("p1", Some("ADDED")), FileNode("p1", Some("DELETED"))}
ParticipantNodes == {[login |-> Some(ab), name |-> Some("N1")]}
LabelNodes == {[name |-> Some(clang)]}

StoredPullRequests == {r.id : r \in con.w.pull_requests}

CallSaveCommits ==
    \E commits \in SeqsUpTo(CommitNodes, MaxBatch), pull_request_id \in StoredPullRequests :
        /\ Cardinality(con.w.commits) + Len(commits) <= MaxCommitRows
        /\ con' = saveCommits(con, commits, pull_request_id)
        /\ call' = [op |-> "saveCommits", commits |-> commits,
                    pull_request_id |-> pull_request_id]
        /\ before' = con.w
        /\ UNCHANGED driverVars

CallSaveReviews ==
    \E reviews \in SeqsUpTo(ReviewNodes, MaxBatch), pull_request_id \in StoredPullRequests :
        /\ con' = saveReviews(con, reviews, pull_request_id)
        /\ call' = [op |-> "saveReviews", reviews |-> reviews,
                    pull_request_id |-> pull_request_id]
        /\ before' = con.w
        /\ UNCHANGED driverVars

CallSaveFiles ==
    \E files \in SeqsUpTo(FileNodes, MaxBatch), pull_request_id \in StoredPullRequests :
        /\ con' = saveFiles(con, files, pull_request_id)
        /\ call' = [op |-> "saveFiles", files |-> files,
                    pull_request_id |-> pull_request_id]
        /\ before' = con.w
        /\ UNCHANGED driverVars

CallSaveParticipants ==
    \E authors \in SeqsUpTo(ParticipantNodes, MaxBatch),
       pull_request_id \in StoredPullRequests :
        /\ con' = saveParticipants(con, authors, pull_request_id)
        /\ call' = [op |-> "saveParticipants", authors |-> authors,
                    pull_request_id |-> pull_request_id]
        /\ before' = con.w
        /\ UNCHANGED driverVars

CallLinkLabelsWithPullRequest ==
    \E labels \in SeqsUpTo(LabelNodes, MaxBatch), pull_request_id \in StoredPullRequests :
        /\ con' = linkLabelsWithPullRequest(con, labels, pull_request_id)
        /\ call' = [op |-> "linkLabelsWithPullRequest", labels |-> labels,
                    pull_request_id |-> pull_request_id]
        /\ before' = con.w
        /\ UNCHANGED driverVars

NextAppend ==
    \/ CallSaveCommits
    \/ CallSaveReviews
    \/ CallSaveFiles
    \/ CallSaveParticipants
    \/ CallLinkLabelsWithPullRequest

InitAppend ==
    /\ con = SeededOne
    /\ call = NoCall
    /\ before = EmptyTables
    /\ DriverIdle

SpecAppend == InitAppend /\ [][NextAppend]_vars

AppendCall ==
    call.op \in {"saveCommits", "saveReviews", "saveFiles", "saveParticipants",
                 "linkLabelsWithPullRequest"}

(* No two rows of the table share a key *)
CommitKeysUnique(table) ==
    \A r1, r2 \in table :
        (r1.pull_request_id = r2.pull_request_id /\ r1.url = r2.url) => r1 = r2
ReviewKeysUnique(table) == \A r1, r2 \in table : r1.id = r2.id => r1 = r2
FileKeysUnique(table) ==
    \A r1, r2 \in table :
        (r1.pull_request_id = r2.pull_request_id /\ r1.path = r2.path) => r1 = r2
LabelKeysUnique(table) == \A r1, r2 \in table : r1.name = r2.name => r1 = r2

(* C5: append-only entities are first-write-wins.  After an append-only    *)
(* save every row that existed is unchanged, and no table holds two rows   *)
(* with one key: a record whose key was present added nothing.  (Join rows *)
(* are their own key.)                                                     *)
C5_FirstWriteWins ==
    AppendCall =>
        /\ before.commits \subseteq con.w.commits
        /\ before.reviews \subseteq con.w.reviews
        /\ before.files \subseteq con.w.files
        /\ before.labels \subseteq con.w.labels
        /\ before.author_pull_request \subseteq con.w.author_pull_request
        /\ before.label_pull_request \subseteq con.w.label_pull_request
        /\ CommitKeysUnique(con.w.commits)
        /\ ReviewKeysUnique(con.w.reviews)
        /\ FileKeysUnique(con.w.files)
        /\ LabelKeysUnique(con.w.labels)

(***************************************************************************)
(* Spec: the main loop (src/main.py:541-607) over a source of pages.       *)
(* Time is counted in tenths of a second.                                  *)
(***************************************************************************)
PRS_PER_REQUEST == 10
COST_PER_MINUTE == 1900
Window == 600
PageDelay == 1

MaxPages == 2
MaxPool == 2
MaxRuns == 2

Tokens == <<"", "t2", "t3", "t4">>

alice == <<"a", "l", "i", "c", "e">>
bob == <<"b", "o", "b">>
AB == <<"A", "B">>

(* One pull request with 2 commits, 1 comment by alice, 1 review by bob    *)
(* with 1 nested comment, 1 file and the label clang                       *)
PageOne ==
    << [PullRequestNode(5) EXCEPT
            !.commits = <<CommitNode(Some("c1"), "d1"), CommitNode(Some("c2"), "d2")>>,
            !.comments = <<CommentNode(<<1>>, Some(alice))>>,
            !.reviews = <<ReviewNode(<<7>>, Some(bob),
                                     <<CommentNode(<<2>>, Some(bob))>>)>>,
            !.files = <<FileNode("p1", Some("ADDED"))>>,
            !.labels = <<[name |-> Some(clang)]>>] >>

(* A pull request by a_ whose commit has no url, with a thread and a       *)
(* participant, then one by AB and one without author                      *)
PageTwo ==
    << [VersionC(6) EXCEPT
            !.commits = <<CommitNode(None, "d1")>>,
            !.reviewThreads = <<[id |-> "T1",
                                 comments |-> <<CommentNode(<<1>>, None)>>]>>,
            !.participants = <<[login |-> Some(a_), name |-> Some("N1")]>>],
       [PullRequestNode(8) EXCEPT !.author = Some(AB)],
       VersionB(9) >>

Pages == {PageOne, PageTwo}

(* rateLimit.cost of a response, and the time a request takes *)
Costs == {950, 2000}
RequestDurations == {2, 700}

(* A failed request: the time it takes and the cost it reports, if any *)
ErrorDuration == CHOOSE d \in RequestDurations : \A o \in RequestDurations : d <= o
ErrorCost == CHOOSE c \in Costs : \A o \in Costs : c <= o

(* str(e) of a TransportServerError, as the set of phrases it contains *)
ErrorMessages == {{"Unauthorized"}, {"rate limit exceeded"}, {"Bad Gateway"}}

(* The response to the query for the page after the cursor.  The cursor of *)
(* a page is its index in the source.                                      *)
PageIndex(after) == IF after = None THEN 1 ELSE Val(after) + 1

Response(src, after, cost) ==
    [ rateLimit  |-> Some([cost |-> cost]),
      repository |-> Some([pullRequests |->
                        [ nodes    |-> src[PageIndex(after)],
                          pageInfo |-> [ endCursor   |-> Some(PageIndex(after)),
                                         hasNextPage |-> PageIndex(after) < Len(src) ] ]]),
      message    |-> None ]

(* Responses without one of the two top-level fields *)
Malformed(src, after, cost) ==
    { [Response(src, after, cost) EXCEPT !.rateLimit = None, !.message = m]
          : m \in {None, Some("Bad credentials")} }
    \cup { [Response(src, after, cost) EXCEPT !.repository = None, !.message = m]
          : m \in {None, Some("Bad credentials")} }

(* Module level of src/main.py, lines 541-554 *)
InitDriver ==
    /\ current_token_idx = 0
    /\ current_cost = 0
    /\ has_next_page = TRUE
    /\ next_page_after = None
    /\ start = 0
    /\ saved_pull_requests = 0
    /\ pc = "loop"
    /\ clock = 0
    /\ requests = <<>>
    /\ result = None
    /\ logged = <<>>
    /\ exit_by = "running"
    /\ cooldown = 0

Init ==
    /\ con = Connect(EmptyTables)
    /\ call = NoCall
    /\ before = EmptyTables
    /\ token_pool \in {SubSeq(Tokens, 1, n) : n \in 1..MaxPool}
    /\ source \in SeqsUpTo(Pages, MaxPages)
    /\ run = 1
    /\ last_pass = None
    /\ InitDriver

(* The process ends: the open transaction is rolled back *)
ProcessEnd(cn) == [cn EXCEPT !.w = cn.c]

(* safeExit(): con.close(), then exit() *)
safeExit(reason) ==
    /\ con' = Close(con)
    /\ pc' = "exited"
    /\ exit_by' = reason

(* An exception nothing catches ends the process; close() is not called *)
Uncaught ==
    /\ con' = ProcessEnd(con)
    /\ pc' = "crashed"
    /\ exit_by' = "uncaught"

(* while has_next_page: false, the loop ends and the script with it *)
Finish ==
    /\ pc = "loop" /\ ~has_next_page
    /\ pc' = "finished"
    /\ exit_by' = "finished"
    /\ con' = ProcessEnd(con)
    /\ UNCHANGED <<call, before, token_pool, current_token_idx, current_cost,
                   has_next_page, next_page_after, start, saved_pull_requests,
                   clock, source, requests, result, logged, cooldown, run, last_pass>>

(* Mutant of GovernorCooldown: the counter is reset without the sleep *)
GovernorCooldown_NoSleep ==
    /\ pc = "loop" /\ has_next_page
    /\ current_cost >= COST_PER_MINUTE
    /\ cooldown' = Window - (clock - start)
    /\ current_cost' = 0
    /\ start' = clock
    /\ pc' = "request"
    /\ UNCHANGED <<con, call, before, token_pool, current_token_idx,
                   has_next_page, next_page_after, saved_pull_requests, clock,
                   source, requests, result, logged, exit_by, run, last_pass>>

(* if current_cost >= COST_PER_MINUTE: sleep for what is left of the       *)
(* window, then reset the counter and the window start                     *)
GovernorCooldown ==
    /\ pc = "loop" /\ has_next_page
    /\ current_cost >= COST_PER_MINUTE
    /\ LET cur == clock
           cd  == Window - (cur - start)
       IN  /\ clock' = IF cd > 0 THEN clock + cd ELSE clock
           /\ cooldown' = cd
    /\ current_cost' = 0
    /\ start' = clock'
    /\ pc' = "request"
    /\ UNCHANGED <<con, call, before, token_pool, current_token_idx,
                   has_next_page, next_page_after, saved_pull_requests,
                   source, requests, result, logged, exit_by, run, last_pass>>

(* Mutant of GovernorPass: the request goes ahead whatever the counter is *)
GovernorPass_OverBudget ==
    /\ pc = "loop" /\ has_next_page
    /\ pc' = "request"
    /\ UNCHANGED <<con, call, before, token_pool, current_token_idx, current_cost,
                   has_next_page, next_page_after, start, saved_pull_requests,
                   clock, source, requests, result, logged, exit_by, cooldown,
                   run, last_pass>>

GovernorPass ==
    /\ pc = "loop" /\ has_next_page
    /\ current_cost < COST_PER_MINUTE
    /\ pc' = "request"
    /\ UNCHANGED <<con, call, before, token_pool, current_token_idx, current_cost,
                   has_next_page, next_page_after, start, saved_pull_requests,
                   clock, source, requests, result, logged, exit_by, cooldown,
                   run, last_pass>>

(* What the request log keeps of a request *)
Issued(outcome) ==
    [ token   |-> token_pool[current_token_idx + 1],
      after   |-> next_page_after,
      cost    |-> current_cost,
      elapsed |-> clock - start,
      outcome |-> outcome ]

(* q = prepareQuery(after=next_page_after);                                *)
(* result = executeQuery(q, token_pool[current_token_idx]) returns the     *)
(* page                                                                    *)
RequestReturns ==
    /\ pc = "request"
    /\ \E cost \in Costs, d \in RequestDurations :
          /\ clock' = clock + d
          /\ result' = Some(Response(source, next_page_after, cost))
    /\ requests' = Append(requests, Issued("ok"))
    /\ pc' = "response"
    /\ call' = [op |-> "executeQuery"]
    /\ before' = con.w
    /\ UNCHANGED <<con, token_pool, current_token_idx, current_cost,
                   has_next_page, next_page_after, start, saved_pull_requests,
                   source, logged, exit_by, cooldown, run, last_pass>>

(* executeQuery returns a response without "repository" or "rateLimit" *)
RequestReturnsMalformed ==
    /\ pc = "request"
    /\ \E r \in Malformed(source, next_page_after, ErrorCost) :
          result' = Some(r)
    /\ clock' = clock + ErrorDuration
    /\ requests' = Append(requests, Issued("malformed"))
    /\ pc' = "response"
    /\ call' = [op |-> "executeQuery"]
    /\ before' = con.w
    /\ UNCHANGED <<con, token_pool, current_token_idx, current_cost,
                   has_next_page, next_page_after, start, saved_pull_requests,
                   source, logged, exit_by, cooldown, run, last_pass>>

(* executeQuery raises TransportServerError *)
RequestRaises ==
    /\ pc = "request"
    /\ \E err \in ErrorMessages :
          /\ result' = Some([error |-> err])
          /\ requests' = Append(requests,
                Issued(IF "rate limit exceeded" \in err \/ "Unauthorized" \in err
                       THEN "auth" ELSE "other"))
    /\ clock' = clock + ErrorDuration
    /\ pc' = "except"
    /\ call' = [op |-> "executeQuery"]
    /\ before' = con.w
    /\ UNCHANGED <<con, token_pool, current_token_idx, current_cost,
                   has_next_page, next_page_after, start, saved_pull_requests,
                   source, logged, exit_by, cooldown, run, last_pass>>

(* if "repository" not in result or "rateLimit" not in result:             *)
(* without "message": log and safeExit(); with it, `result.message` on a   *)
(* dict raises AttributeError before anything is logged or closed          *)
MalformedResponse ==
    /\ pc = "response"
    /\ LET r == Val(result)
       IN  /\ r.repository = None \/ r.rateLimit = None
           /\ IF r.message = None
              THEN /\ logged' = Append(logged, r)
                   /\ safeExit("malformed")
              ELSE /\ logged' = logged
                   /\ Uncaught
    /\ UNCHANGED <<call, before, token_pool, current_token_idx, current_cost,
                   has_next_page, next_page_after, start, saved_pull_requests,
                   clock, source, requests, result, cooldown, run, last_pass>>

(* Mutant of ProcessPage: the cursor is left where it was *)
ProcessPage_KeepCursor ==
    /\ pc = "response"
    /\ LET r == Val(result)
       IN  /\ r.repository # None /\ r.rateLimit # None
           /\ LET rate_limit    == Val(r.rateLimit)
                  page_info     == Val(r.repository).pullRequests.pageInfo
                  pull_requests == Val(r.repository).pullRequests.nodes
              IN  /\ current_cost' = current_cost + rate_limit.cost
                  /\ con' = savePullRequests(con, pull_requests)
                  /\ call' = [op |-> "savePullRequests", pull_requests |-> pull_requests]
                  /\ before' = con.w
                  /\ has_next_page' = page_info.hasNextPage
    /\ saved_pull_requests' = saved_pull_requests + PRS_PER_REQUEST
    /\ clock' = clock + PageDelay
    /\ pc' = "loop"
    /\ UNCHANGED <<token_pool, current_token_idx, start, source, requests, result,
                   logged, exit_by, cooldown, run, last_pass, next_page_after>>

(* Mutant of ProcessPage: a saved page sets the credential index back to 0 *)
ProcessPage_ResetIndex ==
    /\ pc = "response"
    /\ LET r == Val(result)
       IN  /\ r.repository # None /\ r.rateLimit # None
           /\ LET rate_limit    == Val(r.rateLimit)
                  page_info     == Val(r.repository).pullRequests.pageInfo
                  pull_requests == Val(r.repository).pullRequests.nodes
              IN  /\ current_cost' = current_cost + rate_limit.cost
                  /\ con' = savePullRequests(con, pull_requests)
                  /\ call' = [op |-> "savePullRequests", pull_requests |-> pull_requests]
                  /\ before' = con.w
                  /\ has_next_page' = page_info.hasNextPage
                  /\ next_page_after' = IF ~page_info.hasNextPage THEN None
                                        ELSE page_info.endCursor
    /\ saved_pull_requests' = saved_pull_requests + PRS_PER_REQUEST
    /\ current_token_idx' = 0
    /\ clock' = clock + PageDelay
    /\ pc' = "loop"
    /\ UNCHANGED <<token_pool, start, source, requests, result,
                   logged, exit_by, cooldown, run, last_pass>>

(* Lines 580-594: count the cost, save the page, advance the cursor, sleep(.1) *)
ProcessPage ==
    /\ pc = "response"
    /\ LET r == Val(result)
       IN  /\ r.repository # None /\ r.rateLimit # None
           /\ LET rate_limit    == Val(r.rateLimit)
                  page_info     == Val(r.repository).pullRequests.pageInfo
                  pull_requests == Val(r.repository).pullRequests.nodes
              IN  /\ current_cost' = current_cost + rate_limit.cost
                  /\ con' = savePullRequests(con, pull_requests)
                  /\ call' = [op |-> "savePullRequests", pull_requests |-> pull_requests]
                  /\ before' = con.w
                  /\ has_next_page' = page_info.hasNextPage
                  /\ next_page_after' = IF ~page_info.hasNextPage THEN None
                                        ELSE page_info.endCursor
    /\ saved_pull_requests' = saved_pull_requests + PRS_PER_REQUEST
    /\ clock' = clock + PageDelay
    /\ pc' = "loop"
    /\ UNCHANGED <<token_pool, current_token_idx, start, source, requests, result,
                   logged, exit_by, cooldown, run, last_pass>>

(* Mutant of ExceptOther: the failure is taken for one of the              *)
(* authorization class, the credential is advanced and the page retried    *)
ExceptOther_Rotate ==
    /\ pc = "except"
    /\ LET err == Val(result).error
       IN  ~("rate limit exceeded" \in err) /\ ~("Unauthorized" \in err)
    /\ logged' = Append(logged, Val(result))
    /\ current_token_idx' = current_token_idx + 1
    /\ IF current_token_idx' >= Len(token_pool)
       THEN safeExit("no_tokens")
       ELSE /\ pc' = "loop"
            /\ UNCHANGED <<con, exit_by>>
    /\ UNCHANGED <<call, before, token_pool, current_cost,
                   has_next_page, next_page_after, start, saved_pull_requests,
                   clock, source, requests, result, cooldown, run, last_pass>>

(* except TransportServerError: a message of another class is logged and   *)
(* fatal                                                                   *)
ExceptOther ==
    /\ pc = "except"
    /\ LET err == Val(result).error
       IN  ~("rate limit exceeded" \in err) /\ ~("Unauthorized" \in err)
    /\ logged' = Append(logged, Val(result))
    /\ safeExit("transport_error")
    /\ UNCHANGED <<call, before, token_pool, current_token_idx, current_cost,
                   has_next_page, next_page_after, start, saved_pull_requests,
                   clock, source, requests, result, cooldown, run, last_pass>>

(* Mutants of ExceptRotate: the index advanced by two, and the cursor      *)
(* reset to the first page                                                 *)
ExceptRotate_SkipOne ==
    /\ pc = "except"
    /\ LET err == Val(result).error
       IN  "rate limit exceeded" \in err \/ "Unauthorized" \in err
    /\ current_token_idx' = current_token_idx + 2
    /\ IF current_token_idx' >= Len(token_pool)
       THEN safeExit("no_tokens")
       ELSE /\ pc' = "loop"
            /\ UNCHANGED <<con, exit_by>>
    /\ UNCHANGED <<call, before, token_pool, current_cost,
                   has_next_page, next_page_after, start, saved_pull_requests,
                   clock, source, requests, result, logged, cooldown, run, last_pass>>

ExceptRotate_ResetCursor ==
    /\ pc = "except"
    /\ LET err == Val(result).error
       IN  "rate limit exceeded" \in err \/ "Unauthorized" \in err
    /\ current_token_idx' = current_token_idx + 1
    /\ next_page_after' = None
    /\ IF current_token_idx' >= Len(token_pool)
       THEN safeExit("no_tokens")
       ELSE /\ pc' = "loop"
            /\ UNCHANGED <<con, exit_by>>
    /\ UNCHANGED <<call, before, token_pool, current_cost,
                   has_next_page, start, saved_pull_requests,
                   clock, source, requests, result, logged, cooldown, run, last_pass>>

(* Mutant of ExceptRotate: the page is retried with the same credential *)
ExceptRotate_KeepIndex ==
    /\ pc = "except"
    /\ LET err == Val(result).error
       IN  "rate limit exceeded" \in err \/ "Unauthorized" \in err
    /\ pc' = "loop"
    /\ UNCHANGED <<con, exit_by, current_token_idx>>
    /\ UNCHANGED <<call, before, token_pool, current_cost,
                   has_next_page, next_page_after, start, saved_pull_requests,
                   clock, source, requests, result, logged, cooldown, run, last_pass>>

(* except TransportServerError: current_token_idx += 1, and safeExit()     *)
(* when the pool has no credential at that index                           *)
ExceptRotate ==
    /\ pc = "except"
    /\ LET err == Val(result).error
       IN  "rate limit exceeded" \in err \/ "Unauthorized" \in err
    /\ current_token_idx' = current_token_idx + 1
    /\ IF current_token_idx' >= Len(token_pool)
       THEN safeExit("no_tokens")
       ELSE /\ pc' = "loop"
            /\ UNCHANGED <<con, exit_by>>
    /\ UNCHANGED <<call, before, token_pool, current_cost,
                   has_next_page, next_page_after, start, saved_pull_requests,
                   clock, source, requests, result, logged, cooldown, run, last_pass>>

(* The program is started again on the store the finished run left *)
Rerun ==
    /\ pc = "finished"
    /\ run < MaxRuns
    /\ run' = run + 1
    /\ last_pass' = Some(con.c)
    /\ con' = Connect(con.c)
    /\ call' = NoCall
    /\ before' = con.c
    /\ current_token_idx' = 0
    /\ current_cost' = 0
    /\ has_next_page' = TRUE
    /\ next_page_after' = None
    /\ start' = 0
    /\ saved_pull_requests' = 0
    /\ pc' = "loop"
    /\ clock' = 0
    /\ requests' = <<>>
    /\ result' = None
    /\ logged' = <<>>
    /\ exit_by' = "running"
    /\ cooldown' = 0
    /\ UNCHANGED <<token_pool, source>>

Next ==
    \/ Finish
    \/ GovernorCooldown
    \/ GovernorPass
    \/ RequestReturns
    \/ RequestReturnsMalformed
    \/ RequestRaises
    \/ MalformedResponse
    \/ ProcessPage
    \/ ExceptOther
    \/ ExceptRotate
    \/ Rerun

Spec == Init /\ [][Next]_vars

LastRequest == requests[Len(requests)]

AuthFailures == Cardinality({i \in 1..Len(requests) : requests[i].outcome = "auth"})

PoolIndex(token) == CHOOSE k \in 1..Len(token_pool) : token_pool[k] = token

(* C6: re-running the sync over unchanged source data is idempotent.  When *)
(* a second (or later) run over the same pages has finished, the committed *)
(* store equals the store the run before it left.                          *)
C6_RerunIdempotent ==
    (pc = "finished" /\ run >= 2) => con.c = Val(last_pass)

(* C7 as stated: with a pool of 2 credentials the attempt after a failure  *)
(* of the first credential uses the second, and the run is terminated by   *)
(* the third such failure.                                                 *)
C7_ThirdFailureTerminates ==
    Len(token_pool) = 2 =>
        /\ \A i \in 1..(Len(requests) - 1) :
              (requests[i].outcome = "auth" /\ requests[i].token = token_pool[1])
                  => requests[i + 1].token = token_pool[2]
        /\ exit_by = "no_tokens" => AuthFailures = 3

(* C7 amended: with a pool of 2 credentials the attempt after a failure of *)
(* the first credential uses the second, and the run is terminated by the  *)
(* second authorization-class failure: there is never a third.             *)
C7_SecondFailureTerminates ==
    Len(token_pool) = 2 =>
        /\ \A i \in 1..(Len(requests) - 1) :
              (requests[i].outcome = "auth" /\ requests[i].token = token_pool[1])
                  => requests[i + 1].token = token_pool[2]
        /\ AuthFailures <= 2
        /\ AuthFailures = 2 =>
              /\ pc \in {"except", "exited"}
              /\ LastRequest.outcome = "auth" /\ LastRequest.token = token_pool[2]
              /\ pc = "exited" => (exit_by = "no_tokens" /\ ~con.open)
        /\ exit_by = "no_tokens" => AuthFailures = 2

(* C7 witness: both credentials of a pool of 2 failed, one attempt after   *)
(* the other, and the run has ended.                                       *)
C7_Witness ==
    /\ Len(token_pool) = 2
    /\ exit_by = "no_tokens"
    /\ Len(requests) = 2
    /\ requests[1].outcome = "auth" /\ requests[1].token = token_pool[1]
    /\ requests[2].outcome = "auth" /\ requests[2].token = token_pool[2]

(* C8: an authorization-class failure with a credential left changes only  *)
(* the credential.  The request after it carries the next credential of    *)
(* the pool, the same cursor and the same cost counter; and until that     *)
(* request is answered the cursor, has_next_page, the counter and the      *)
(* store are what they were when the failed request was issued.            *)
C8_FailureChangesOnlyCredential ==
    /\ \A i \in 1..(Len(requests) - 1) :
          requests[i].outcome = "auth" =>
              /\ PoolIndex(requests[i + 1].token) = PoolIndex(requests[i].token) + 1
              /\ requests[i + 1].after = requests[i].after
              /\ requests[i + 1].cost = requests[i].cost
    /\ (requests # <<>> /\ pc \in {"except", "loop", "request"}) =>
          (LastRequest.outcome = "auth" =>
              /\ next_page_after = LastRequest.after
              /\ has_next_page
              /\ current_cost = LastRequest.cost
              /\ con.w = before
              /\ pc # "except" =>
                    token_pool[current_token_idx + 1]
                        = token_pool[PoolIndex(LastRequest.token) + 1])

(* C8 witness: the request for the second page failed on the first         *)
(* credential and was answered on the second.                              *)
C8_Witness ==
    /\ pc = "loop"
    /\ \E i \in 1..(Len(requests) - 1) :
          /\ requests[i].outcome = "auth" /\ requests[i].after = Some(1)
          /\ requests[i].token = token_pool[1]
          /\ requests[i + 1].outcome = "ok" /\ requests[i + 1].after = Some(1)
          /\ requests[i + 1].token = token_pool[2]
          /\ i + 1 = Len(requests)

(* C9: the Rate Governor blocks.  No request is issued with the counter at *)
(* or over the budget; and a loop iteration that finds the counter at or   *)
(* over the budget with less than the window elapsed sleeps until the      *)
(* window has elapsed, and whether it sleeps or not it sets the counter to *)
(* 0 and the window start to the current time before it requests.          *)
C9_GovernorBlocks ==
    /\ [](/\ pc = "request" => current_cost < COST_PER_MINUTE
          /\ \A i \in 1..Len(requests) : requests[i].cost < COST_PER_MINUTE)
    /\ [][(pc = "loop" /\ has_next_page /\ current_cost >= COST_PER_MINUTE) =>
              /\ pc' = "request"
              /\ current_cost' = 0
              /\ start' = clock'
              /\ clock - start < Window => clock' = start + Window
              /\ clock - start >= Window => clock' = clock]_vars

(* C9 witness: the governor slept for a positive time and the request is   *)
(* about to be issued with the counter at 0 and a new window.              *)
C9_Witness ==
    /\ pc = "request"
    /\ cooldown > 0
    /\ current_cost = 0
    /\ start = clock
    /\ requests # <<>>
    /\ LastRequest.outcome = "ok"

TableNames == DOMAIN EmptyTables

(* C10: every fatal termination closes the connection before the process   *)
(* exits, and a malformed response is logged and none of it is persisted.  *)
C10_FatalExitCloses ==
    pc \in {"exited", "crashed"} =>
        /\ ~con.open
        /\ LastRequest.outcome = "malformed" =>
              /\ \E i \in 1..Len(logged) : logged[i] = Val(result)
              /\ \A t \in TableNames : con.c[t] \subseteq before[t]

(* C11: a TransportServerError whose message is of neither the rate limit  *)
(* nor the Unauthorized class ends the process at once.  The failed        *)
(* request is the last one issued, the credential index is still the one   *)
(* the request was issued with, the cursor is not moved and nothing is     *)
(* written; the handler's only step is the exit, which logs the error and  *)
(* closes the connection.                                                  *)
C11_OtherTransportErrorIsFatal ==
    /\ [](\A i \in 1..Len(requests) :
            requests[i].outcome = "other" =>
                /\ i = Len(requests)
                /\ pc \in {"except", "exited"}
                /\ current_token_idx + 1 = PoolIndex(requests[i].token)
                /\ next_page_after = requests[i].after
                /\ current_cost = requests[i].cost
                /\ con.w = before
                /\ pc = "exited" =>
                      /\ exit_by = "transport_error"
                      /\ ~con.open
                      /\ logged # <<>> /\ logged[Len(logged)] = Val(result))
    /\ [][(pc = "except" /\ LastRequest.outcome = "other") =>
              /\ pc' = "exited"
              /\ requests' = requests
              /\ current_token_idx' = current_token_idx]_vars

(* C11 witness: the first page was saved, the request for the second       *)
(* failed with "Bad Gateway" on a pool that still had a credential left,   *)
(* and the process has exited.                                             *)
C11_Witness ==
    /\ pc = "exited" /\ exit_by = "transport_error"
    /\ Len(token_pool) = 2 /\ current_token_idx = 0
    /\ Len(requests) = 2
    /\ requests[1].outcome = "ok"
    /\ requests[2].outcome = "other" /\ requests[2].after = Some(1)
    /\ Val(result).error = {"Bad Gateway"}

(***************************************************************************)
(* SpecThreads: saveReviewThreads and saveReviews applied, any number of   *)
(* times, to a store that holds the pull requests 5 and 6, the review 7    *)
(* and the thread T1 (src/main.py:296-351).                                *)
(***************************************************************************)
MaxThreads == 2

ThreadNode(id, comments) == [id |-> id, comments |-> comments]

ThreadNodes ==
    { ThreadNode("T1", <<CommentNode(<<1>>, None)>>),
      ThreadNode("T2", <<>>),
      ThreadNode("T2", <<CommentNode(<<1>>, None), CommentNode(<<2>>, Some(ab))>>) }

CallSaveReviewThreads ==
    \E threads \in SeqsUpTo(ThreadNodes, MaxThreads),
       pull_request_id \in StoredPullRequests :
        /\ con' = saveReviewThreads(con, threads, pull_request_id)
        /\ call' = [op |-> "saveReviewThreads", threads |-> threads,
                    pull_request_id |-> pull_request_id]
        /\ before' = con.w
        /\ UNCHANGED driverVars

NextThreads ==
    \/ CallSaveReviewThreads
    \/ CallSaveReviews

SpecThreads == InitSeeded /\ [][NextThreads]_vars

(* C12: every save call is its own commit unit.  When saveReviews or       *)
(* saveReviewThreads returns, every row it wrote is committed and no write *)
(* is left in the open transaction: the connection's view of the store is  *)
(* the committed store.                                                    *)
C12_EverySaveCommits ==
    call.op \in {"saveReviews", "saveReviewThreads"} =>
        /\ \A t \in TableNames : (con.w[t] \ before[t]) \subseteq con.c[t]
        /\ con.w = con.c

(* C13: one page holding one pull request with 2 commits, 1 comment by     *)
(* alice, 1 review by bob with 1 nested comment, 1 file and the label      *)
(* clang, synced into an empty store, leaves exactly 1 pull request,       *)
(* 2 authors, 2 commits, 2 comments, 1 review, 1 file, 1 label and         *)
(* 1 label link, all of them committed.                                    *)
C13_EndToEndCounts ==
    (/\ call.op = "savePullRequests"
     /\ call.pull_requests = PageOne
     /\ before = EmptyTables) =>
        /\ Cardinality(con.w.pull_requests) = 1
        /\ Cardinality(con.w.authors) = 2
        /\ {a.login : a \in con.w.authors} = {alice, bob}
        /\ Cardinality(con.w.commits) = 2
        /\ Cardinality(con.w.comments) = 2
        /\ Cardinality(con.w.reviews) = 1
        /\ Cardinality(con.w.files) = 1
        /\ Cardinality(con.w.labels) = 1
        /\ Cardinality(con.w.label_pull_request) = 1
        /\ con.w.review_threads = {}
        /\ con.w.author_pull_request = {}
        /\ con.c = con.w

(* C13 witness: the driver has saved that page as the first page of the    *)
(* first run.                                                              *)
C13_Witness ==
    /\ pc = "loop" /\ run = 1 /\ Len(requests) = 1
    /\ call.op = "savePullRequests"
    /\ call.pull_requests = PageOne
    /\ before = EmptyTables
    /\ Cardinality(con.c.comments) = 2

(***************************************************************************)
(* SpecDelete: rows of authors and pull_requests deleted from a synced     *)
(* store through a connection opened the way the repository opens its      *)
(* connections, with PRAGMA foreign_keys = ON (src/db_init.py:7,           *)
(* src/main.py:13), so that the ON DELETE clauses of the schema act.       *)
(***************************************************************************)

(* Mutant of DeleteAuthorRow: reviews declared `on delete cascade` *)
DeleteAuthorRow_CascadeReviews(tables, id) ==
    [tables EXCEPT
        !.authors = {a \in @ : a.id # id},
        !.pull_requests =
            {[r EXCEPT !.author_id = IF @ = Some(id) THEN None ELSE @] : r \in @},
        !.reviews = {r \in @ : r.author_id # Some(id)},
        !.comments =
            {[r EXCEPT !.author_id = IF @ = Some(id) THEN None ELSE @] : r \in @},
        !.author_pull_request = {r \in @ : r.author_id # id}]

(* delete from authors where id = ?: pull_requests, reviews and comments   *)
(* are `on delete set null`, author_pull_request is `on delete cascade`    *)
DeleteAuthorRow(tables, id) ==
    [tables EXCEPT
        !.authors = {a \in @ : a.id # id},
        !.pull_requests =
            {[r EXCEPT !.author_id = IF @ = Some(id) THEN None ELSE @] : r \in @},
        !.reviews =
            {[r EXCEPT !.author_id = IF @ = Some(id) THEN None ELSE @] : r \in @},
        !.comments =
            {[r EXCEPT !.author_id = IF @ = Some(id) THEN None ELSE @] : r \in @},
        !.author_pull_request = {r \in @ : r.author_id # id}]

(* Mutant of DeletePullRequestRow: files declared `on delete set null` *)
DeletePullRequestRow_KeepFiles(tables, id) ==
    [tables EXCEPT
        !.pull_requests = {r \in @ : r.id # id},
        !.commits =
            {[r EXCEPT !.pull_request_id = IF @ = Some(id) THEN None ELSE @] : r \in @},
        !.reviews =
            {[r EXCEPT !.pull_request_id = IF @ = Some(id) THEN None ELSE @] : r \in @},
        !.review_threads =
            {[r EXCEPT !.pull_request_id = IF @ = Some(id) THEN None ELSE @] : r \in @},
        !.comments =
            {[r EXCEPT !.pull_request_id = IF @ = Some(id) THEN None ELSE @] : r \in @},
        !.files =
            {[r EXCEPT !.pull_request_id = IF @ = Some(id) THEN None ELSE @] : r \in @},
        !.author_pull_request = {r \in @ : r.pull_request_id # id},
        !.label_pull_request = {r \in @ : r.pull_request_id # id}]

(* delete from pull_requests where id = ?: commits, reviews, review_threads *)
(* and comments are `on delete set null`; files, author_pull_request and    *)
(* label_pull_request are `on delete cascade`                               *)
DeletePullRequestRow(tables, id) ==
    [tables EXCEPT
        !.pull_requests = {r \in @ : r.id # id},
        !.commits =
            {[r EXCEPT !.pull_request_id = IF @ = Some(id) THEN None ELSE @] : r \in @},
        !.reviews =
            {[r EXCEPT !.pull_request_id = IF @ = Some(id) THEN None ELSE @] : r \in @},
        !.review_threads =
            {[r EXCEPT !.pull_request_id = IF @ = Some(id) THEN None ELSE @] : r \in @},
        !.comments =
            {[r EXCEPT !.pull_request_id = IF @ = Some(id) THEN None ELSE @] : r \in @},
        !.files = {r \in @ : r.pull_request_id # Some(id)},
        !.author_pull_request = {r \in @ : r.pull_request_id # id},
        !.label_pull_request = {r \in @ : r.pull_request_id # id}]

(* The pages of the main loop's source, the first pull request authored by *)
(* bob, who also takes part in it, and with a review thread                *)
SyncedPages ==
    << [PageOne[1] EXCEPT
            !.author = Some(bob),
            !.reviewThreads = <<ThreadNode("T2", <<>>)>>,
            !.participants = <<[login |-> Some(bob), name |-> None]>>] >>
    \o PageTwo

InitSynced ==
    /\ con = savePullRequests(Connect(EmptyTables), SyncedPages)
    /\ call = NoCall
    /\ before = EmptyTables
    /\ DriverIdle

DeleteAuthor ==
    \E a \in con.w.authors :
        /\ con' = Commit([con EXCEPT !.w = DeleteAuthorRow(@, a.id)])
        /\ call' = [op |-> "deleteAuthor", id |-> a.id]
        /\ before' = con.w
        /\ UNCHANGED driverVars

DeletePullRequest ==
    \E p \in con.w.pull_requests :
        /\ con' = Commit([con EXCEPT !.w = DeletePullRequestRow(@, p.id)])
        /\ call' = [op |-> "deletePullRequest", id |-> p.id]
        /\ before' = con.w
        /\ UNCHANGED driverVars

NextDelete ==
    \/ DeleteAuthor
    \/ DeletePullRequest

SpecDelete == InitSynced /\ [][NextDelete]_vars

(* C14: deleting an Author row preserves history.  Every pull_requests,    *)
(* reviews and comments row that referenced the author is still there,     *)
(* the same but for author_id, which is null; the three tables keep their  *)
(* number of rows and every other row of them is untouched.                *)
C14_AuthorDeletionSetsNull ==
    call.op = "deleteAuthor" =>
        /\ \A a \in con.w.authors : a.id # call.id
        /\ \A t \in {"pull_requests", "reviews", "comments"} :
              /\ Cardinality(con.w[t]) = Cardinality(before[t])
              /\ \A r \in before[t] :
                    IF r.author_id = Some(call.id)
                    THEN [r EXCEPT !.author_id = None] \in con.w[t]
                    ELSE r \in con.w[t]
              /\ \A r \in con.w[t] : r.author_id # Some(call.id)

(* C14 witness: the deleted author was the author of a pull request, of a  *)
(* review and of a comment, and the three rows are there without author.   *)
C14_Witness ==
    /\ call.op = "deleteAuthor"
    /\ \A t \in {"pull_requests", "reviews", "comments"} :
          \E r \in before[t] :
              /\ r.author_id = Some(call.id)
              /\ [r EXCEPT !.author_id = None] \in con.w[t]

(* C15: deleting a PullRequest row removes every files,                    *)
(* author_pull_request and label_pull_request row of that pull request and *)
(* no other row of those tables, while every commits, reviews and          *)
(* review_threads row survives, the same but for a pull_request_id that    *)
(* pointed to the deleted row, which is null.                              *)
C15_PullRequestDeletion ==
    call.op = "deletePullRequest" =>
        /\ \A p \in con.w.pull_requests : p.id # call.id
        /\ con.w.files = {r \in before.files : r.pull_request_id # Some(call.id)}
        /\ \A t \in {"author_pull_request", "label_pull_request"} :
              con.w[t] = {r \in before[t] : r.pull_request_id # call.id}
        /\ \A t \in {"commits", "reviews", "review_threads"} :
              /\ Cardinality(con.w[t]) = Cardinality(before[t])
              /\ \A r \in before[t] :
                    IF r.pull_request_id = Some(call.id)
                    THEN [r EXCEPT !.pull_request_id = None] \in con.w[t]
                    ELSE r \in con.w[t]
              /\ \A r \in con.w[t] : r.pull_request_id # Some(call.id)

(* C15 witness: the deleted pull request had a row in each of the six      *)
(* tables; the three owned rows are gone and the three others are there    *)
(* without pull request.                                                   *)
C15_Witness ==
    /\ call.op = "deletePullRequest"
    /\ \E r \in before.files : r.pull_request_id = Some(call.id)
    /\ \A t \in {"author_pull_request", "label_pull_request"} :
          \E r \in before[t] : r.pull_request_id = call.id
    /\ \A t \in {"commits", "reviews", "review_threads"} :
          \E r \in before[t] :
              /\ r.pull_request_id = Some(call.id)
              /\ [r EXCEPT !.pull_request_id = None] \in con.w[t]

(* The rows of the table that hold the node_id *)
ThreadRows(table, node_id) == {r \in table : r.node_id = node_id}

(* The comment is not saved again by a later thread of the call *)
LastSaveOf(threads, i, comment) ==
    \A k \in (i + 1)..Len(threads) :
        \A j \in 1..Len(threads[k].comments) :
            threads[k].comments[j].fullDatabaseId # comment.fullDatabaseId

(* C16: saveReviewThreads resolves the id of every thread, new or stored.  *)
(* After the call each thread of the list has exactly one row; a thread    *)
(* that was stored keeps its row, id included, on every save; and every    *)
(* nested comment is stored with the id of that row, never null, as its    *)
(* review_thread_id.                                                       *)
C16_ThreadIdResolved ==
    call.op = "saveReviewThreads" =>
        \A i \in 1..Len(call.threads) :
            LET thread == call.threads[i]
                rows   == ThreadRows(con.w.review_threads, thread.id)
            IN  /\ Cardinality(rows) = 1
                /\ ThreadRows(before.review_threads, thread.id) \subseteq rows
                /\ \A j \in 1..Len(thread.comments) :
                      LastSaveOf(call.threads, i, thread.comments[j]) =>
                          \E c \in con.w.comments, r \in rows :
                              /\ c.id = PyInt(thread.comments[j].fullDatabaseId)
                              /\ c.review_thread_id = Some(r.id)

(* C16 witness: one call saved the new thread T2 with the comments 1 and 2 *)
(* and then the stored thread T1 with the comment 1; T1 kept its id,       *)
(* comment 2 carries the id of T2 and comment 1 the id of T1.              *)
C16_Witness ==
    /\ call.op = "saveReviewThreads"
    /\ Len(call.threads) = 2
    /\ call.threads[1].id = "T2" /\ call.threads[2].id = "T1"
    /\ before.comments = {}
    /\ ThreadRows(before.review_threads, "T2") = {}
    /\ \E r1 \in before.review_threads, r2 \in con.w.review_threads :
          /\ r1.node_id = "T1" /\ r1 \in con.w.review_threads
          /\ r2.node_id = "T2" /\ r2.id # r1.id
          /\ \E c1, c2 \in con.w.comments :
                /\ c1.id = 1 /\ c1.review_thread_id = Some(r1.id)
                /\ c2.id = 2 /\ c2.review_thread_id = Some(r2.id)

(* pageInfo of the page the source serves after the cursor *)
PageInfo(after) ==
    Val(Response(source, after, ErrorCost).repository).pullRequests.pageInfo

(* The pages of the current run that were requested and saved *)
PagesSaved ==
    IF pc = "response" THEN Len(requests) - 1 ELSE Len(requests)

(* C17: cursor pagination visits every page exactly once, in order.  In a  *)
(* run without a failed request the first request carries no cursor and    *)
(* each later one the endCursor of the page before it, so the i-th request *)
(* is for the i-th page of the source; each answered page is saved once,   *)
(* before the next request; and after the first page with hasNextPage      *)
(* false the loop ends without another request: a finished run has         *)
(* requested and saved each of the n pages once.                           *)
C17_EveryPageOnceInOrder ==
    /\ []((\A i \in 1..Len(requests) : requests[i].outcome = "ok") =>
            /\ Len(requests) <= Len(source)
            /\ \A i \in 1..Len(requests) :
                  /\ i = 1 => requests[i].after = None
                  /\ i > 1 => requests[i].after = PageInfo(requests[i - 1].after).endCursor
                  /\ PageIndex(requests[i].after) = i
                  /\ i < Len(requests) => PageInfo(requests[i].after).hasNextPage
            /\ saved_pull_requests = PRS_PER_REQUEST * PagesSaved
            /\ (pc \in {"loop", "finished"} /\ requests # <<>>) =>
                  /\ call.op = "savePullRequests"
                  /\ call.pull_requests = source[Len(requests)]
                  /\ has_next_page = PageInfo(LastRequest.after).hasNextPage
                  /\ has_next_page = (Len(requests) < Len(source))
            /\ pc = "finished" => Len(requests) = Len(source))
    /\ [][(pc = "loop" /\ ~has_next_page) =>
              (pc' = "finished" /\ requests' = requests /\ con'.c = con.c)]_vars

(* C17 witness: a run over two pages has finished after two requests, the  *)
(* first without cursor and the second with the cursor of the first page.  *)
C17_Witness ==
    /\ pc = "finished"
    /\ Len(source) = 2 /\ Len(requests) = 2
    /\ requests[1].outcome = "ok" /\ requests[1].after = None
    /\ requests[2].outcome = "ok" /\ requests[2].after = Some(1)
    /\ call.op = "savePullRequests" /\ call.pull_requests = source[2]
    /\ saved_pull_requests = 2 * PRS_PER_REQUEST

(* C18 as stated: the cumulative cost counter never exceeds the budget in  *)
(* any reachable state.                                                    *)
C18_CounterNeverExceedsBudget ==
    current_cost <= COST_PER_MINUTE

(* C18 amended: the counter is below the budget whenever a request is      *)
(* issued or in flight, and it is at or over the budget only between the   *)
(* saving of an answered page and the Governor's next check, by the cost   *)
(* that page's response reported on top of a counter that was below the    *)
(* budget when the request was issued.                                     *)
C18_CounterBelowBudgetAtRequest ==
    /\ pc \in {"request", "response", "except", "exited", "crashed"} =>
          current_cost < COST_PER_MINUTE
    /\ \A i \in 1..Len(requests) : requests[i].cost < COST_PER_MINUTE
    /\ current_cost >= COST_PER_MINUTE =>
          /\ pc \in {"loop", "finished"}
          /\ LastRequest.outcome = "ok"
          /\ call.op = "savePullRequests"
          /\ current_cost = LastRequest.cost + Val(Val(result).rateLimit).cost

(* C18 witness: the second request was issued with the counter below the   *)
(* budget, and the cost its response reported has taken the counter past   *)
(* the budget; the page is saved and the loop is back at its head.         *)
C18_Witness ==
    /\ pc = "loop"
    /\ current_cost > COST_PER_MINUTE
    /\ Len(requests) = 2
    /\ LastRequest.cost > 0 /\ LastRequest.cost < COST_PER_MINUTE
    /\ call.op = "savePullRequests"

(* C19: natural-key resolution is exact.  After a page is saved, the       *)
(* author_id stored for a pull request with an author is the id of the     *)
(* authors row whose login equals the incoming login, and a participant is *)
(* linked to the pull request by the id of the row whose login equals the  *)
(* participant's; a label likewise by the row whose name equals its name.  *)
C19_ExactKeyResolution ==
    call.op = "savePullRequests" =>
        \A i \in 1..Len(call.pull_requests) :
            LET node == call.pull_requests[i]
            IN  /\ (node.author # None /\ node = LastNode(node.number)) =>
                      \E a \in con.w.authors, p \in con.w.pull_requests :
                          /\ a.login = Val(node.author)
                          /\ p.id = node.number
                          /\ p.author_id = Some(a.id)
                /\ \A j \in 1..Len(node.participants) :
                      node.participants[j].login # None =>
                          \E a \in con.w.authors :
                              /\ a.login = Val(node.participants[j].login)
                              /\ [author_id |-> a.id, pull_request_id |-> node.number]
                                     \in con.w.author_pull_request
                /\ \A j \in 1..Len(node.labels) :
                      node.labels[j].name # None =>
                          \E l \in con.w.labels :
                              /\ l.name = Val(node.labels[j].name)
                              /\ [label_id |-> l.id, pull_request_id |-> node.number]
                                     \in con.w.label_pull_request

(* The ids of a table, as values of a nullable referencing column *)
IdsOf(table) == {Some(r.id) : r \in table} \cup {None}

(* Every non-null foreign key column of the tables refers to a row *)
ForeignKeysResolve(tables) ==
    LET authors       == IdsOf(tables.authors)
        pull_requests == IdsOf(tables.pull_requests)
    IN  /\ \A r \in tables.pull_requests : r.author_id \in authors
        /\ \A r \in tables.commits : r.pull_request_id \in pull_requests
        /\ \A r \in tables.reviews :
              r.author_id \in authors /\ r.pull_request_id \in pull_requests
        /\ \A r \in tables.review_threads : r.pull_request_id \in pull_requests
        /\ \A r \in tables.comments :
              /\ r.author_id \in authors
              /\ r.pull_request_id \in pull_requests
              /\ r.review_id \in IdsOf(tables.reviews)
              /\ r.review_thread_id \in IdsOf(tables.review_threads)
        /\ \A r \in tables.files : r.pull_request_id \in pull_requests
        /\ \A r \in tables.author_pull_request :
              Some(r.author_id) \in authors /\ Some(r.pull_request_id) \in pull_requests
        /\ \A r \in tables.label_pull_request :
              /\ Some(r.label_id) \in IdsOf(tables.labels)
              /\ Some(r.pull_request_id) \in pull_requests

OptionalAuthors == {None, Some(ab)}

AuthoredNode(number, pa, ra, ca) ==
    [PullRequestNode(number) EXCEPT
        !.author = pa,
        !.comments = <<CommentNode(<<1>>, ca)>>,
        !.reviews = <<ReviewNode(<<7>>, ra, <<CommentNode(<<2>>, ca)>>)>>]

TrailingNode ==
    [PullRequestNode(6) EXCEPT
        !.author = Some(bob),
        !.comments = <<CommentNode(<<3>>, Some(bob))>>]

CallSavePage ==
    \E number \in {4, 5}, pa \in OptionalAuthors, ra \in OptionalAuthors,
       ca \in OptionalAuthors :
        LET pull_requests == <<AuthoredNode(number, pa, ra, ca), TrailingNode>>
        IN  /\ con' = savePullRequests(con, pull_requests)
            /\ call' = [op |-> "savePullRequests", pull_requests |-> pull_requests]
            /\ before' = con.w
            /\ UNCHANGED driverVars

NextOptionalAuthor == CallSavePage

SpecOptionalAuthor == InitEmpty /\ [][NextOptionalAuthor]_vars

(* The logins the records of a pull request node carry *)
CommentLogins(comments) ==
    {Val(comments[k].author) : k \in {k \in 1..Len(comments) : comments[k].author # None}}

NodeLogins(node) ==
    (IF node.author # None THEN {Val(node.author)} ELSE {})
    \cup CommentLogins(node.comments)
    \cup UNION { (IF node.reviews[j].author # None
                  THEN {Val(node.reviews[j].author)} ELSE {})
                 \cup CommentLogins(node.reviews[j].comments)
                 : j \in 1..Len(node.reviews) }

(* The row of the record is in the table; when the record has no author    *)
(* the row has no author_id -- or, with `kept`, a row that was stored      *)
(* before the call has the author_id it had                                *)
AbsentAuthorStored(kept, table, id, author) ==
    \E r \in con.w[table] :
        /\ r.id = id
        /\ author = None =>
              IF kept /\ \E old \in before[table] : old.id = id
              THEN \E old \in before[table] : old.id = id /\ old.author_id = r.author_id
              ELSE r.author_id = None

AbsentAuthorRule(kept) ==
    call.op = "savePullRequests" =>
        /\ \A i \in 1..Len(call.pull_requests) :
              LET node == call.pull_requests[i]
              IN  /\ AbsentAuthorStored(FALSE, "pull_requests", node.number, node.author)
                  /\ \A k \in 1..Len(node.comments) :
                        AbsentAuthorStored(kept, "comments",
                            PyInt(node.comments[k].fullDatabaseId), node.comments[k].author)
                  /\ \A j \in 1..Len(node.reviews) :
                        LET review == node.reviews[j]
                        IN  /\ AbsentAuthorStored(kept, "reviews",
                                   PyInt(review.fullDatabaseId), review.author)
                            /\ \A k \in 1..Len(review.comments) :
                                  AbsentAuthorStored(kept, "comments",
                                      PyInt(review.comments[k].fullDatabaseId),
                                      review.comments[k].author)
        /\ before.authors \subseteq con.w.authors
        /\ {a.login : a \in con.w.authors \ before.authors}
              \subseteq UNION {NodeLogins(call.pull_requests[i])
                                  : i \in 1..Len(call.pull_requests)}

(* C21 as stated: a pull request, review or comment whose author object is *)
(* absent is stored with author_id null, no authors row is created or      *)
(* changed for it, and the rest of the page is saved.                      *)
C21_AbsentAuthorIsNull == AbsentAuthorRule(FALSE)

(* C21 amended: a record without author is not an error.  Its row is in    *)
(* the store after the save and so are the rows of the rest of the page;   *)
(* no authors row is created or changed for it; a pull request is stored   *)
(* with author_id null, and so is a review or comment that the save        *)
(* inserts, while a review or comment that was already stored keeps the    *)
(* author_id it had.                                                       *)
C21_AbsentAuthorIsNoError == AbsentAuthorRule(TRUE)

(* C21 witness: the first page saved has a pull request, a comment, a      *)
(* review and a review comment all without author; the four rows have no   *)
(* author_id, the only authors row is that of the second pull request's    *)
(* author, and the second pull request and its comment are stored.         *)
C21_Witness ==
    /\ call.op = "savePullRequests"
    /\ before = EmptyTables
    /\ call.pull_requests[1].author = None
    /\ call.pull_requests[1].comments[1].author = None
    /\ call.pull_requests[1].reviews[1].author = None
    /\ \E p \in con.w.pull_requests :
          p.id = call.pull_requests[1].number /\ p.author_id = None
    /\ \E r \in con.w.reviews : r.id = 7 /\ r.author_id = None
    /\ \E c1, c2 \in con.w.comments :
          c1.id = 1 /\ c2.id = 2 /\ c1.author_id = None /\ c2.author_id = None
    /\ {a.login : a \in con.w.authors} = {bob}
    /\ \E p \in con.w.pull_requests, c \in con.w.comments :
          p.id = 6 /\ p.author_id # None /\ c.id = 3 /\ c.author_id = p.author_id

(* C22: the credential index only moves forward for the whole run.  It is  *)
(* the number of authorization-class failures of the run so far, over all  *)
(* pages; no step of a run decreases it and a saved page leaves it as it   *)
(* is; every request is issued with an index inside the pool; and so a run *)
(* that is still going has had at most len(token_pool) - 1 such failures:  *)
(* the failure that makes it len(token_pool) ends the run.                 *)
C22_IndexOnlyMovesForward ==
    /\ [](/\ current_token_idx \in 0..Len(token_pool)
          /\ current_token_idx =
                IF pc = "except" /\ LastRequest.outcome = "auth"
                THEN AuthFailures - 1 ELSE AuthFailures
          /\ pc \in {"loop", "request", "response", "except", "finished"} =>
                current_token_idx < Len(token_pool)
          /\ \A i \in 1..Len(requests) :
                \E k \in 1..Len(token_pool) :
                    /\ requests[i].token = token_pool[k]
                    /\ k - 1 = Cardinality({j \in 1..(i - 1) : requests[j].outcome = "auth"})
          /\ pc \in {"loop", "request", "response", "finished"} =>
                AuthFailures <= Len(token_pool) - 1
          /\ AuthFailures <= Len(token_pool)
          /\ AuthFailures = Len(token_pool) =>
                /\ pc \in {"except", "exited"}
                /\ pc = "exited" => exit_by = "no_tokens")
    /\ [][run' = run => current_token_idx' >= current_token_idx]_vars
    /\ [][pc = "response" => current_token_idx' = current_token_idx]_vars

(* C22 witness: with a pool of 2 the request for the first page failed on  *)
(* the first credential and was answered on the second, the page was       *)
(* saved, and the failure of the request for the second page, the second   *)
(* failure of the run, has ended it.                                       *)
C22_Witness ==
    /\ Len(token_pool) = 2
    /\ pc = "exited" /\ exit_by = "no_tokens"
    /\ current_token_idx = 2
    /\ Len(requests) = 3
    /\ requests[1].outcome = "auth" /\ requests[1].after = None
    /\ requests[2].outcome = "ok" /\ requests[2].after = None
    /\ requests[3].outcome = "auth" /\ requests[3].after = Some(1)
    /\ requests[3].token = token_pool[2]

(***************************************************************************)
(* SpecTerminates: the main loop with its scheduling.  The script is one   *)
(* sequential thread: while it is running its next statement is executed,  *)
(* every request is answered or raises, and every sleep ends.  Every step  *)
(* of the loop moves pc and some step is possible wherever the loop is     *)
(* running, so this is weak fairness of the steps that move pc from a      *)
(* running position.  Starting the program again is up to its user and is  *)
(* not forced.                                                             *)
(***************************************************************************)
PcValues ==
    {"idle", "loop", "request", "response", "except", "finished", "exited", "crashed"}

Advance == pc \in {"loop", "request", "response", "except"} /\ pc' \in PcValues

SpecTerminates == Init /\ [][Next]_vars /\ WF_pc(Advance)

Running == pc \in {"loop", "request", "response", "except"}

Terminated == pc \in {"finished", "exited", "crashed"}

(* The requests of the run with the outcome *)
Outcomes(outcome) ==
    Cardinality({i \in 1..Len(requests) : requests[i].outcome = outcome})

(* C23: every run terminates.  Each answered request consumes one page of  *)
(* the source and each authorization-class failure one credential of the   *)
(* pool, and any other failure is the last request: a run issues at most   *)
(* len(source) + len(token_pool) - 1 requests, and a run that is going     *)
(* eventually finishes (has_next_page false) or exits.                     *)
C23_EveryRunTerminates ==
    /\ [](/\ Outcomes("ok") <= Len(source)
          /\ Outcomes("auth") <= Len(token_pool)
          /\ Outcomes("other") + Outcomes("malformed") <= 1
          /\ Len(requests) <= Len(source) + Len(token_pool) - 1
          /\ pc = "finished" => ~has_next_page)
    /\ (Running ~> Terminated)

(* C23 witness: a run over two pages with a pool of 2 has finished after   *)
(* three requests, one of which failed with the first credential.          *)
C23_Witness ==
    /\ pc = "finished" /\ ~has_next_page
    /\ Len(source) = 2 /\ Len(token_pool) = 2
    /\ Len(requests) = 3
    /\ Outcomes("auth") = 1 /\ Outcomes("ok") = 2

====
